---- MODULE Spec2Model ----
(***************************************************************************)
(* Model of aimet_torch/adaround/adaround_weight.py: the Adaround driver   *)
(* (Adaround.apply_adaround and its helpers).  One run of apply_adaround   *)
(* is a sequence of steps, one per call made by apply_adaround and one per *)
(* iteration of the per-layer loop of _adaround_model.                     *)
(*                                                                         *)
(* Modules are numbers: Container is a non-leaf module of the model (it    *)
(* has a name but no quantization wrapper), 1..NumLayers are the leaf      *)
(* layers in declaration order, Foreign is a module object that does not   *)
(* belong to the model.  A layer's hierarchical name is its number.        *)
(* Leading underscores of the Python names are dropped.                    *)
(***************************************************************************)
EXTENDS Integers, Sequences, FiniteSets, TLC

\* Bounds of the model
NumLayers == 3
MaxOverrides == 2
MaxIgnore == 1

\* apply_adaround(..., default_param_bw: int = 4, ...)
default_param_bw == 4

Layers == 1..NumLayers
Container == 0
Foreign == NumLayers + 1
NoneModule == -1

\* Bitwidths a caller puts in param_bw_override_list
OverrideBitwidths == {4, 8}
\* Rounding values h (in quarters of a quantization step) an optimization ends with
HValues == {1, 3}

\* params.num_batches: the batches utils.CachedDataset writes under WORKING_DIR
num_batches == 2
\* The files model_inputs_<i> of a cached dataset
BatchFiles == 0..(num_batches - 1)

AdaroundSupportedModules == {"Conv2d", "ConvTranspose2d", "Linear"}

\* The architecture: the type of every module object
LayerType(m) ==
    IF m = Container THEN "Sequential"
    ELSE IF m = Foreign THEN "Conv2d"
    ELSE IF m % 3 = 1 THEN "Conv2d"
    ELSE IF m % 3 = 2 THEN "Linear"
    ELSE "ReLU"

\* isinstance(module, AdaroundSupportedModules)
IsSupported(m) == LayerType(m) \in AdaroundSupportedModules

\* model.named_modules()
ModelModules == {Container} \cup Layers

\* module.named_parameters()
named_parameters(m) == IF IsSupported(m) THEN {"weight", "bias"} ELSE {}

\* The float parameters of the caller's model
InitParam(l, p) == IF p = "weight" THEN 300 * l + 50 ELSE 7 * l

NoEncoding ==
    [valid |-> FALSE, min |-> 0, max |-> 0, delta |-> 0, offset |-> 0, bw |-> 0]

\* TensorQuantizer.compute_encoding: min/max encoding of a tensor at a bitwidth
compute_encoding(w, bw) ==
    LET n == 2 ^ bw
        r == 2048 * ((w \div 2048) + 1)
    IN  [valid |-> TRUE, min |-> -r, max |-> r - (2 * r) \div n,
         delta |-> (2 * r) \div n, offset |-> -(n \div 2), bw |-> bw]

\* The param quantizer QuantizationSimModel creates for a parameter
StaticQuantizer(bw, scheme, enabled) ==
    [cls |-> "StaticGridPerTensorQuantizer", bitwidth |-> bw, round_mode |-> "nearest",
     quant_scheme |-> scheme, use_symmetric_encodings |-> FALSE, enabled |-> enabled,
     encoding |-> NoEncoding, use_soft_rounding |-> FALSE, alpha |-> 0,
     data_type |-> "int"]

\* AdaroundTensorQuantizer(bitwidth, round_mode, quant_scheme, use_symmetric_encodings, enabled)
AdaroundTensorQuantizer(bitwidth, round_mode, quant_scheme, use_symmetric_encodings, enabled) ==
    [cls |-> "AdaroundTensorQuantizer", bitwidth |-> bitwidth, round_mode |-> round_mode,
     quant_scheme |-> quant_scheme, use_symmetric_encodings |-> use_symmetric_encodings,
     enabled |-> enabled, encoding |-> NoEncoding, use_soft_rounding |-> TRUE,
     alpha |-> 0, data_type |-> "int"]

Clamp(x, lo, hi) == IF x < lo THEN lo ELSE IF x > hi THEN hi ELSE x

\* AdaroundTensorQuantizer.adaround_weights: floor(w / delta) plus the rounding
\* decision (soft: h itself; hard: h thresholded at one half), dequantized
adaround_weights(quantizer, w) ==
    LET enc == quantizer.encoding
        fl == w \div enc.delta
        rec == IF quantizer.use_soft_rounding
               THEN enc.delta * fl + (quantizer.alpha * enc.delta) \div 4
               ELSE enc.delta * (fl + (IF quantizer.alpha >= 2 THEN 1 ELSE 0))
    IN  Clamp(rec, enc.min, enc.max)

VARIABLES
    pc,                      \* position in apply_adaround
    err,                     \* the exception apply_adaround ended with, or "none"
    order,                   \* utils.get_ordered_list_of_modules(model, dummy_input)
    param_bw_override_list,  \* argument: sequence of <<module, bitwidth>>
    ignore_quant_ops_list,   \* argument: sequence of modules
    learned_h,               \* the rounding value the optimizer converges to
    model_params,            \* parameters of the caller's model
    quant_params,            \* parameters of quant_sim.model (a deep copy)
    wrapped,                 \* wrapped[l]: quant_sim.model holds a wrapper at name l
    param_quantizers,        \* param_quantizers[l][p] of the wrapper at l
    input_enabled,           \* input_quantizer.enabled of the wrapper at l
    output_enabled,          \* output_quantizer.enabled of the wrapper at l
    mode,                    \* QcQuantizeOpMode of the wrapper at l
    idx,                     \* position of the per-layer loop in order
    working_dir,             \* os.path.exists(WORKING_DIR)
    cached_batches,          \* the files model_inputs_<i> that WORKING_DIR holds
    dir_entries,             \* inside shutil.rmtree: the entries os.scandir listed that
                             \* are not unlinked yet
    encodings_file,          \* the file <path>/<filename_prefix>.encodings
    optimized,               \* layers AdaroundOptimizer.adaround_module finished, in order
    committed,               \* layers whose weight _update_module_params overwrote
    peer                     \* a second apply_adaround of the same process: its position
                             \* in _adaround_model, the exception it ended with, the
                             \* entries its shutil.rmtree has listed, and the layer
                             \* whose weight quantizer its configuration file disables,
                             \* [pc, idx, err, dir_entries, disabled]

vars == <<pc, err, order, param_bw_override_list, ignore_quant_ops_list, learned_h,
          model_params, quant_params, wrapped, param_quantizers, input_enabled,
          output_enabled, mode, idx, working_dir, cached_batches, dir_entries,
          encodings_file, optimized, committed, peer>>

inputs == <<order, param_bw_override_list, ignore_quant_ops_list, learned_h>>

NoFile == [written |-> FALSE, entries |-> <<>>]

RECURSIVE Ascending(_)
Ascending(S) ==
    IF S = {} THEN <<>>
    ELSE LET m == CHOOSE x \in S : \A y \in S : x <= y
         IN  <<m>> \o Ascending(S \ {m})

RECURSIVE Descending(_)
Descending(S) ==
    IF S = {} THEN <<>>
    ELSE LET m == CHOOSE x \in S : \A y \in S : x >= y
         IN  <<m>> \o Descending(S \ {m})

\* Orders in which a forward pass can invoke the layers: at most one layer is
\* left out of the forward pass, and execution order is declaration order or its reverse
ExecutionOrders ==
    UNION {{Ascending(Layers \ {u}), Descending(Layers \ {u})} : u \in 0..NumLayers}

SeqsUpTo(S, n) == UNION {[1..k -> S] : k \in 0..n}

OverrideLists == SeqsUpTo((Layers \cup {Foreign}) \X OverrideBitwidths, MaxOverrides)
IgnoreLists == SeqsUpTo(ModelModules \cup {Foreign}, MaxIgnore)

\* State after quant_sim = QuantizationSimModel(model, ...): every leaf layer of a deep
\* copy of the model is wrapped, parameters get quantizers of bitwidth default_param_bw;
\* the configuration file decides which quantizers are enabled
InitMain ==
    /\ pc = "override"
    /\ err = "none"
    /\ order \in ExecutionOrders
    /\ \E ov \in OverrideLists, ig \in IgnoreLists :
          /\ Len(ov) + Len(ig) <= MaxOverrides
          /\ param_bw_override_list = ov
          /\ ignore_quant_ops_list = ig
    /\ learned_h \in HValues
    /\ model_params = [l \in Layers |-> [p \in named_parameters(l) |-> InitParam(l, p)]]
    /\ quant_params = model_params
    /\ wrapped = [l \in Layers |-> TRUE]
    /\ \E d \in {0} \cup {l \in Layers : IsSupported(l)} :
          param_quantizers = [l \in Layers |-> [p \in named_parameters(l) |->
              StaticQuantizer(default_param_bw, "post_training_tf_enhanced",
                              p = "weight" /\ l # d)]]
    /\ input_enabled = [l \in Layers |-> l = 1]
    /\ output_enabled = [l \in Layers |-> TRUE]
    /\ mode = [l \in Layers |-> "PASSTHROUGH"]
    /\ idx = 1
    /\ working_dir = FALSE
    /\ cached_batches = {}
    /\ dir_entries = {}
    /\ encodings_file = NoFile
    /\ optimized = <<>>
    /\ committed = {}

\* One invocation of apply_adaround: no other invocation runs
Init ==
    /\ InitMain
    /\ peer = [pc |-> "idle", idx |-> 1, err |-> "none", dir_entries |-> {}, disabled |-> 0]

\* Two invocations of apply_adaround on the same model interleave: the second one is
\* about to create its cached dataset under the process-wide WORKING_DIR
InitConcurrent ==
    /\ InitMain
    /\ param_bw_override_list = <<>>
    /\ ignore_quant_ops_list = <<>>
    /\ \E d \in {0} \cup {l \in Layers : IsSupported(l)} :
          peer = [pc |-> "cache", idx |-> 1, err |-> "none", dir_entries |-> {},
                  disabled |-> d]

Raise(e) == pc' = "error" /\ err' = e


\* _get_quant_module: the wrapper of quant_sim.model at module_name, or None
get_quant_module(wr, module_name) ==
    IF module_name \in Layers /\ wr[module_name] THEN module_name ELSE NoneModule

\* utils.get_layer_name: the name of a module of the model; an error for a module
\* that is not one of the model's modules
get_layer_name_ok(module) == module \in ModelModules
get_layer_name(module) == module

\* Faulty variant of override_loop: the KeyError checks are kept, the bitwidth is
\* not stored in the weight quantizer
override_loop_drops_bw(pq, module_to_name, name_to_module, list) ==
    [ok |-> \A i \in DOMAIN list :
                list[i][1] \in module_to_name /\ list[i][1] \in name_to_module,
     pq |-> pq]

\* The loop of _override_param_bitwidth over param_bw_override_list: a KeyError ends
\* it at the first module missing from module_to_name or name_to_module
RECURSIVE override_loop(_, _, _, _)
override_loop(pq, module_to_name, name_to_module, list) ==
    IF list = <<>> THEN [ok |-> TRUE, pq |-> pq]
    ELSE LET module == Head(list)[1]
             bw == Head(list)[2]
         IN  IF module \notin module_to_name \/ module \notin name_to_module
             THEN [ok |-> FALSE, pq |-> pq]
             ELSE override_loop([pq EXCEPT ![module]["weight"].bitwidth = bw],
                                module_to_name, name_to_module, Tail(list))

\* _override_param_bitwidth
override_param_bitwidth(pq, wr, list) ==
    IF list = <<>> THEN [ok |-> TRUE, pq |-> pq]
    ELSE override_loop(pq,
                       {m \in ModelModules : IsSupported(m)},
                       {l \in Layers : wr[l] /\ IsSupported(l)},
                       list)

\* QuantizationSimModel.exclude_layers_from_quantization: the listed wrappers are
\* replaced by the modules they wrap
exclude_layers_from_quantization(wr, list_of_modules_to_remove) ==
    [l \in Layers |-> wr[l] /\ l \notin list_of_modules_to_remove]

\* _skip_quantization_for_ops
skip_quantization_for_ops(wr, list) ==
    IF \E i \in DOMAIN list : ~get_layer_name_ok(list[i])
    THEN [ok |-> FALSE, wrapped |-> wr]
    ELSE [ok |-> TRUE,
          wrapped |-> exclude_layers_from_quantization(wr,
              {get_quant_module(wr, get_layer_name(list[i])) : i \in DOMAIN list})]

\* The body of the loop of _compute_param_encodings for one param quantizer:
\* reset_encoding_stats, update_encoding_stats(param.data), compute_encoding
\* (a disabled quantizer computes no encoding)
compute_param_encoding(q, w) ==
    IF q.enabled THEN [q EXCEPT !.encoding = compute_encoding(w, q.bitwidth)] ELSE q

\* Faulty variant of compute_param_encodings: the output quantizers are left as they are
compute_param_encodings_keeps_output(wr, pq, qp, ie, oe, md) ==
    [input_enabled |-> [l \in Layers |-> IF wr[l] THEN FALSE ELSE ie[l]],
     output_enabled |-> oe,
     param_quantizers |-> [l \in Layers |->
         IF wr[l]
         THEN [p \in DOMAIN pq[l] |-> compute_param_encoding(pq[l][p], qp[l][p])]
         ELSE pq[l]],
     mode |-> [l \in Layers |-> IF wr[l] THEN "ACTIVE" ELSE md[l]]]

\* _compute_param_encodings
compute_param_encodings(wr, pq, qp, ie, oe, md) ==
    [input_enabled |-> [l \in Layers |-> IF wr[l] THEN FALSE ELSE ie[l]],
     output_enabled |-> [l \in Layers |-> IF wr[l] THEN FALSE ELSE oe[l]],
     param_quantizers |-> [l \in Layers |->
         IF wr[l]
         THEN [p \in DOMAIN pq[l] |-> compute_param_encoding(pq[l][p], qp[l][p])]
         ELSE pq[l]],
     mode |-> [l \in Layers |-> IF wr[l] THEN "ACTIVE" ELSE md[l]]]

\* Faulty variant of replace_tensor_quantizer: the encoding is not asserted
replace_tensor_quantizer_unchecked(qs) ==
    LET quantizer == qs["weight"]
        adaround_quantizer ==
            AdaroundTensorQuantizer(quantizer.bitwidth, "Adaptive", quantizer.quant_scheme,
                                    quantizer.use_symmetric_encodings, quantizer.enabled)
    IN  [ok |-> TRUE,
         qs |-> [qs EXCEPT !["weight"] =
                    [adaround_quantizer EXCEPT !.encoding = quantizer.encoding]]]

\* Faulty variant of replace_tensor_quantizer: the Adaround quantizer is created but not
\* stored in param_quantizers['weight']
replace_tensor_quantizer_not_stored(qs) ==
    [ok |-> qs["weight"].encoding.valid, qs |-> qs]

\* Faulty variant of replace_tensor_quantizer: the Adaround quantizer is created with
\* the default bitwidth instead of the bitwidth of the quantizer it replaces
replace_tensor_quantizer_default_bw(qs) ==
    LET quantizer == qs["weight"]
        adaround_quantizer ==
            AdaroundTensorQuantizer(default_param_bw, "Adaptive", quantizer.quant_scheme,
                                    quantizer.use_symmetric_encodings, quantizer.enabled)
    IN  IF ~quantizer.encoding.valid
        THEN [ok |-> FALSE, qs |-> qs]
        ELSE [ok |-> TRUE,
              qs |-> [qs EXCEPT !["weight"] =
                         [adaround_quantizer EXCEPT !.encoding = quantizer.encoding]]]

\* _replace_tensor_quantizer on the param_quantizers of one wrapper
replace_tensor_quantizer(qs) ==
    LET quantizer == qs["weight"]
        adaround_quantizer ==
            AdaroundTensorQuantizer(quantizer.bitwidth, "Adaptive", quantizer.quant_scheme,
                                    quantizer.use_symmetric_encodings, quantizer.enabled)
    IN  IF ~quantizer.encoding.valid
        THEN [ok |-> FALSE, qs |-> qs]
        ELSE [ok |-> TRUE,
              qs |-> [qs EXCEPT !["weight"] =
                         [adaround_quantizer EXCEPT !.encoding = quantizer.encoding]]]

\* AdaroundOptimizer.adaround_module on a layer whose quantizer was replaced: the
\* rounding parameter is learned under soft rounding, then the mode is set to hard
adaround_module(quantizer, h) ==
    [quantizer EXCEPT !.alpha = h, !.use_soft_rounding = FALSE]

\* Faulty variant of update_module_params: the parameter name is not tested, every
\* parameter of the module is overwritten
update_module_params_all_params(params, quantizer) ==
    LET q == [quantizer EXCEPT !.use_soft_rounding = TRUE]
    IN  [params |-> [p \in DOMAIN params |-> adaround_weights(q, params[p])],
         quantizer |-> q]

\* _update_module_params: the new parameters of the module and its quantizer after
\* the commit
update_module_params(params, quantizer) ==
    LET q == [quantizer EXCEPT !.use_soft_rounding = TRUE]
    IN  [params |-> [p \in DOMAIN params |->
                        IF p = "weight" THEN adaround_weights(q, params[p]) ELSE params[p]],
         quantizer |-> IF "weight" \in DOMAIN params THEN q ELSE quantizer]

\* The wrappers _update_modules_with_adarounded_weights and
\* _export_encodings_to_json select
HasAdaroundQuantizer(wr, pq, l) ==
    /\ wr[l]
    /\ IsSupported(l)
    /\ pq[l]["weight"].cls = "AdaroundTensorQuantizer"

\* Faulty variant of update_modules_with_adarounded_weights: the adarounded weights
\* are also written into the caller's model
update_modules_in_both_models(mp, qp, wr, pq) ==
    LET upd(l) == update_module_params(qp[l], pq[l]["weight"])
        new == [l \in Layers |->
                   IF HasAdaroundQuantizer(wr, pq, l) THEN upd(l).params ELSE qp[l]]
    IN  [model_params |-> new,
         quant_params |-> new,
         param_quantizers |-> [l \in Layers |->
             IF HasAdaroundQuantizer(wr, pq, l)
             THEN [pq[l] EXCEPT !["weight"] = upd(l).quantizer]
             ELSE pq[l]],
         committed |-> {l \in Layers : HasAdaroundQuantizer(wr, pq, l)}]

\* Faulty variant of update_modules_with_adarounded_weights: the class of the weight
\* quantizer is not tested, every wrapper of a supported layer is committed
update_modules_without_class_test(mp, qp, wr, pq) ==
    LET sel(l) == wr[l] /\ IsSupported(l)
        upd(l) == update_module_params(qp[l], pq[l]["weight"])
    IN  [model_params |-> mp,
         quant_params |-> [l \in Layers |->
             IF sel(l) /\ pq[l]["weight"].encoding.valid THEN upd(l).params ELSE qp[l]],
         param_quantizers |-> [l \in Layers |->
             IF sel(l) /\ pq[l]["weight"].encoding.valid
             THEN [pq[l] EXCEPT !["weight"] = upd(l).quantizer]
             ELSE pq[l]],
         committed |-> {l \in Layers : sel(l)}]

\* _update_modules_with_adarounded_weights: the parameters of the caller's model and
\* of quant_sim.model, and the quantizers, after the commit
update_modules_with_adarounded_weights(mp, qp, wr, pq) ==
    LET upd(l) == update_module_params(qp[l], pq[l]["weight"])
    IN  [model_params |-> mp,
         quant_params |-> [l \in Layers |->
             IF HasAdaroundQuantizer(wr, pq, l) THEN upd(l).params ELSE qp[l]],
         param_quantizers |-> [l \in Layers |->
             IF HasAdaroundQuantizer(wr, pq, l)
             THEN [pq[l] EXCEPT !["weight"] = upd(l).quantizer]
             ELSE pq[l]],
         committed |-> {l \in Layers : HasAdaroundQuantizer(wr, pq, l)}]

\* _create_encodings_dict_for_quantizer
create_encodings_dict_for_quantizer(quantizer) ==
    [min |-> quantizer.encoding.min,
     max |-> quantizer.encoding.max,
     scale |-> quantizer.encoding.delta,
     offset |-> quantizer.encoding.offset,
     bitwidth |-> quantizer.encoding.bw,
     is_symmetric |-> IF quantizer.use_symmetric_encodings THEN "True" ELSE "False",
     dtype |-> IF quantizer.data_type = "int" THEN "int" ELSE "float"]

\* Faulty variant of param_encoding_keys: the parameter name is not tested, every param
\* quantizer of the wrapper gets a key
param_encoding_keys_all_params(qs, name) ==
    {<<name, orig_param_name>> : orig_param_name \in DOMAIN qs}

\* _update_param_encodings_dict: the keys it adds for the wrapper named name
param_encoding_keys(qs, name) ==
    {<<name, orig_param_name>> : orig_param_name \in DOMAIN qs \cap {"weight"}}

\* Faulty variant of export_encodings_to_json: the quantizer's class is not tested
export_encodings_of_all_wrappers(wr, pq) ==
    LET keys == UNION {param_encoding_keys(pq[l], l) :
                          l \in {x \in Layers : wr[x] /\ IsSupported(x)}}
    IN  [written |-> TRUE,
         entries |-> [k \in keys |-> <<create_encodings_dict_for_quantizer(pq[k[1]][k[2]])>>]]

\* _export_encodings_to_json: the dictionary json.dump writes
export_encodings_to_json(wr, pq) ==
    LET keys == UNION {param_encoding_keys(pq[l], l) :
                          l \in {x \in Layers : HasAdaroundQuantizer(wr, pq, x)}}
    IN  [written |-> TRUE,
         entries |-> [k \in keys |-> <<create_encodings_dict_for_quantizer(pq[k[1]][k[2]])>>]]

\* Faulty variant of remove_quantization_wrappers: the wrappers stay
keep_quantization_wrappers(wr) == wr

\* SaveUtils.remove_quantization_wrappers
remove_quantization_wrappers(wr) == [l \in Layers |-> FALSE]

----
\* apply_adaround, lines 133-134
OverrideParamBitwidth ==
    /\ pc = "override"
    /\ LET r == override_param_bitwidth(param_quantizers, wrapped, param_bw_override_list)
       IN  /\ param_quantizers' = r.pq
           /\ IF r.ok THEN pc' = "skip" /\ err' = err ELSE Raise("KeyError")
    /\ UNCHANGED <<peer, inputs, model_params, quant_params, wrapped, input_enabled,
                   output_enabled, mode, idx, working_dir, cached_batches, dir_entries, encodings_file, optimized,
                   committed>>

\* apply_adaround, lines 136-137
SkipQuantizationForOps ==
    /\ pc = "skip"
    /\ LET r == skip_quantization_for_ops(wrapped, ignore_quant_ops_list)
       IN  /\ wrapped' = r.wrapped
           /\ IF r.ok THEN pc' = "encodings" /\ err' = err ELSE Raise("KeyError")
    /\ UNCHANGED <<peer, inputs, model_params, quant_params, param_quantizers, input_enabled,
                   output_enabled, mode, idx, working_dir, cached_batches, dir_entries, encodings_file, optimized,
                   committed>>

\* apply_adaround, line 140
ComputeParamEncodings ==
    /\ pc = "encodings"
    /\ LET r == compute_param_encodings(wrapped, param_quantizers, quant_params,
                                        input_enabled, output_enabled, mode)
       IN  /\ input_enabled' = r.input_enabled
           /\ output_enabled' = r.output_enabled
           /\ param_quantizers' = r.param_quantizers
           /\ mode' = r.mode
    /\ pc' = "cache"
    /\ UNCHANGED <<err, peer, inputs, model_params, quant_params, wrapped, idx, working_dir, cached_batches, dir_entries,
                   encodings_file, optimized, committed>>

\* _adaround_model, line 171: utils.CachedDataset writes num_batches batches under
\* WORKING_DIR, or fails when the data loader has fewer batches
CreateCachedDataset ==
    /\ pc = "cache"
    /\ \E enough \in BOOLEAN :
          IF enough
          THEN /\ working_dir' = TRUE
               /\ cached_batches' = BatchFiles
               /\ pc' = "loop"
               /\ err' = err
          ELSE UNCHANGED <<working_dir, cached_batches>> /\ Raise("ValueError")
    /\ UNCHANGED dir_entries
    /\ UNCHANGED <<peer, inputs, model_params, quant_params, wrapped, param_quantizers,
                   input_enabled, output_enabled, mode, idx, encodings_file, optimized,
                   committed>>

\* _adaround_model, lines 178-179: a module that is not supported is passed over
SkipUnsupportedModule ==
    /\ pc = "loop"
    /\ idx <= Len(order)
    /\ ~IsSupported(order[idx])
    /\ idx' = idx + 1
    /\ UNCHANGED <<pc, err, peer, inputs, model_params, quant_params, wrapped, param_quantizers,
                   input_enabled, output_enabled, mode, working_dir, cached_batches, dir_entries, encodings_file,
                   optimized, committed>>

\* _adaround_model, lines 182-185
ReplaceTensorQuantizer ==
    /\ pc = "loop"
    /\ idx <= Len(order)
    /\ IsSupported(order[idx])
    /\ LET quant_module == get_quant_module(wrapped, order[idx])
       IN  IF quant_module = NoneModule
           THEN param_quantizers' = param_quantizers /\ Raise("AttributeError")
           ELSE LET r == replace_tensor_quantizer(param_quantizers[quant_module])
                IN  /\ param_quantizers' = [param_quantizers EXCEPT ![quant_module] = r.qs]
                    /\ IF r.ok THEN pc' = "optimize" /\ err' = err
                       ELSE Raise("AssertionError")
    /\ UNCHANGED <<peer, inputs, model_params, quant_params, wrapped, input_enabled,
                   output_enabled, mode, idx, working_dir, cached_batches, dir_entries, encodings_file, optimized,
                   committed>>

\* Faulty variant of AdaroundModule: the weight of the layer is written back as soon as
\* its optimization has ended
AdaroundModuleThenCommit ==
    /\ pc = "optimize"
    /\ \E ok \in BOOLEAN, k \in 1..num_batches :
          IF ~(0..(k - 1) \subseteq cached_batches)
          THEN /\ Raise("FileNotFoundError")
               /\ UNCHANGED <<param_quantizers, optimized, idx, quant_params, committed>>
          ELSE IF ok
          THEN LET q == adaround_module(param_quantizers[order[idx]]["weight"], learned_h)
                   r == update_module_params(quant_params[order[idx]], q)
               IN  /\ param_quantizers' =
                          [param_quantizers EXCEPT ![order[idx]]["weight"] = r.quantizer]
                   /\ quant_params' = [quant_params EXCEPT ![order[idx]] = r.params]
                   /\ committed' = committed \cup {order[idx]}
                   /\ optimized' = Append(optimized, order[idx])
                   /\ idx' = idx + 1
                   /\ pc' = "loop"
                   /\ err' = err
          ELSE /\ Raise("OptimizerError")
               /\ UNCHANGED <<param_quantizers, optimized, idx, quant_params, committed>>
    /\ UNCHANGED <<peer, inputs, model_params, wrapped, input_enabled, output_enabled, mode,
                   working_dir, cached_batches, dir_entries, encodings_file>>

\* Faulty variant of AdaroundModule: WORKING_DIR is removed inside the loop, after
\* each layer
AdaroundModuleRemovesDir ==
    /\ pc = "optimize"
    /\ \E ok \in BOOLEAN, k \in 1..num_batches :
          IF ~(0..(k - 1) \subseteq cached_batches)
          THEN /\ Raise("FileNotFoundError")
               /\ UNCHANGED <<param_quantizers, optimized, idx, working_dir, cached_batches>>
          ELSE IF ok
          THEN /\ param_quantizers' = [param_quantizers EXCEPT ![order[idx]]["weight"] =
                                          adaround_module(@, learned_h)]
               /\ optimized' = Append(optimized, order[idx])
               /\ idx' = idx + 1
               /\ pc' = "loop"
               /\ err' = err
               /\ working_dir' = FALSE
               /\ cached_batches' = {}
          ELSE /\ Raise("OptimizerError")
               /\ UNCHANGED <<param_quantizers, optimized, idx, working_dir, cached_batches>>
    /\ UNCHANGED <<peer, dir_entries, inputs, model_params, quant_params, wrapped, input_enabled,
                   output_enabled, mode, encodings_file, committed>>

\* _adaround_model, lines 188-192: the optimizer runs on the layer, or raises
AdaroundModule ==
    /\ pc = "optimize"
    /\ \E ok \in BOOLEAN, k \in 1..num_batches :
          IF ~(0..(k - 1) \subseteq cached_batches)
          THEN /\ Raise("FileNotFoundError")
               /\ UNCHANGED <<param_quantizers, optimized, idx>>
          ELSE IF ok
          THEN /\ param_quantizers' = [param_quantizers EXCEPT ![order[idx]]["weight"] =
                                          adaround_module(@, learned_h)]
               /\ optimized' = Append(optimized, order[idx])
               /\ idx' = idx + 1
               /\ pc' = "loop"
               /\ err' = err
          ELSE /\ Raise("OptimizerError")
               /\ UNCHANGED <<param_quantizers, optimized, idx>>
    /\ UNCHANGED <<peer, inputs, model_params, quant_params, wrapped, input_enabled,
                   output_enabled, mode, working_dir, cached_batches, dir_entries, encodings_file, committed>>

\* _adaround_model, line 194, reached when the loop has ended:
\* os.path.exists(WORKING_DIR) decides whether line 196 is run
WorkingDirExists ==
    /\ pc = "loop"
    /\ idx > Len(order)
    /\ pc' = (IF working_dir THEN "lstat" ELSE "commit")
    /\ UNCHANGED <<err, working_dir, cached_batches, dir_entries>>
    /\ UNCHANGED <<peer, inputs, model_params, quant_params, wrapped, param_quantizers,
                   input_enabled, output_enabled, mode, idx, encodings_file, optimized,
                   committed>>

\* The system calls of shutil.rmtree, in the order it makes them
RmtreeCalls == {"lstat", "open", "scandir", "unlink", "rmdir"}

\* shutil.rmtree(WORKING_DIR), one system call at a time.  at: the call about to be
\* made; ents: the entries os.scandir listed that are not unlinked yet; f: the entry
\* the next os.unlink takes; dir, files: the directory and the files it holds.
\* os.lstat and os.open raise when the directory is gone; os.scandir lists the
\* entries once; each os.unlink raises when its file is gone; os.rmdir raises when
\* the directory is gone or not empty.
rmtree(at, ents, f, dir, files) ==
    LET raise(e) == [pc |-> "error", err |-> e, dir_entries |-> ents,
                     working_dir |-> dir, cached_batches |-> files]
        to(p, es, d, fs) == [pc |-> p, err |-> "none", dir_entries |-> es,
                             working_dir |-> d, cached_batches |-> fs]
    IN  CASE at = "lstat" ->
               IF dir THEN to("open", ents, dir, files) ELSE raise("FileNotFoundError")
          [] at = "open" ->
               IF dir THEN to("scandir", ents, dir, files) ELSE raise("FileNotFoundError")
          [] at = "scandir" ->
               to(IF files = {} THEN "rmdir" ELSE "unlink", files, dir, files)
          [] at = "unlink" ->
               IF f \in files
               THEN to(IF ents \ {f} = {} THEN "rmdir" ELSE "unlink",
                       ents \ {f}, dir, files \ {f})
               ELSE raise("FileNotFoundError")
          [] at = "rmdir" ->
               IF ~dir THEN raise("FileNotFoundError")
               ELSE IF files # {} THEN raise("OSError")
               ELSE to("removed", ents, FALSE, files)

\* The first invocation takes the step r of shutil.rmtree; from the removal it goes
\* on to line 148
RmtreeStep(r) ==
    /\ pc' = (IF r.pc = "removed" THEN "commit" ELSE r.pc)
    /\ err' = (IF r.pc = "error" THEN r.err ELSE err)
    /\ dir_entries' = r.dir_entries
    /\ working_dir' = r.working_dir
    /\ cached_batches' = r.cached_batches
    /\ UNCHANGED <<peer, inputs, model_params, quant_params, wrapped, param_quantizers,
                   input_enabled, output_enabled, mode, idx, encodings_file, optimized,
                   committed>>

\* _adaround_model, line 196, shutil.rmtree(WORKING_DIR): os.lstat
RmtreeLstat ==
    /\ pc = "lstat"
    /\ RmtreeStep(rmtree("lstat", dir_entries, 0, working_dir, cached_batches))

\* _adaround_model, line 196, shutil.rmtree(WORKING_DIR): os.open
RmtreeOpen ==
    /\ pc = "open"
    /\ RmtreeStep(rmtree("open", dir_entries, 0, working_dir, cached_batches))

\* _adaround_model, line 196, shutil.rmtree(WORKING_DIR): os.scandir
RmtreeScandir ==
    /\ pc = "scandir"
    /\ RmtreeStep(rmtree("scandir", dir_entries, 0, working_dir, cached_batches))

\* _adaround_model, line 196, shutil.rmtree(WORKING_DIR): os.unlink of one listed
\* entry, in the order of the listing, which the file system decides
RmtreeUnlink ==
    /\ pc = "unlink"
    /\ \E f \in dir_entries :
          RmtreeStep(rmtree("unlink", dir_entries, f, working_dir, cached_batches))

\* Faulty variant of RemoveWorkingDir: the directory is left in place while another
\* invocation is in its loop
RemoveWorkingDirUnlessShared ==
    /\ pc = "rmdir"
    /\ LET r == rmtree("rmdir", dir_entries, 0, working_dir, cached_batches)
       IN  RmtreeStep(IF r.pc = "removed" /\ peer.pc \in {"loop", "optimize"}
                      THEN [r EXCEPT !.working_dir = working_dir]
                      ELSE r)

\* _adaround_model, line 196, shutil.rmtree(WORKING_DIR): os.rmdir of the directory
RemoveWorkingDir ==
    /\ pc = "rmdir"
    /\ RmtreeStep(rmtree("rmdir", dir_entries, 0, working_dir, cached_batches))

\* apply_adaround, line 148
UpdateModulesWithAdaroundedWeights ==
    /\ pc = "commit"
    /\ LET r == update_modules_with_adarounded_weights(model_params, quant_params,
                                                       wrapped, param_quantizers)
       IN  /\ model_params' = r.model_params
           /\ quant_params' = r.quant_params
           /\ param_quantizers' = r.param_quantizers
           /\ committed' = r.committed
    /\ pc' = "export"
    /\ UNCHANGED <<err, peer, inputs, wrapped, input_enabled, output_enabled, mode, idx,
                   working_dir, cached_batches, dir_entries, encodings_file, optimized>>

\* apply_adaround, line 151
ExportEncodingsToJson ==
    /\ pc = "export"
    /\ encodings_file' = export_encodings_to_json(wrapped, param_quantizers)
    /\ pc' = "unwrap"
    /\ UNCHANGED <<err, peer, inputs, model_params, quant_params, wrapped, param_quantizers,
                   input_enabled, output_enabled, mode, idx, working_dir, cached_batches, dir_entries, optimized,
                   committed>>

\* apply_adaround, lines 153-156: the wrappers are removed and quant_sim.model returned
RemoveQuantizationWrappers ==
    /\ pc = "unwrap"
    /\ wrapped' = remove_quantization_wrappers(wrapped)
    /\ pc' = "returned"
    /\ UNCHANGED <<err, peer, inputs, model_params, quant_params, param_quantizers,
                   input_enabled, output_enabled, mode, idx, working_dir, cached_batches, dir_entries, encodings_file,
                   optimized, committed>>

Next ==
    \/ OverrideParamBitwidth
    \/ SkipQuantizationForOps
    \/ ComputeParamEncodings
    \/ CreateCachedDataset
    \/ SkipUnsupportedModule
    \/ ReplaceTensorQuantizer
    \/ AdaroundModule
    \/ WorkingDirExists
    \/ RmtreeLstat
    \/ RmtreeOpen
    \/ RmtreeScandir
    \/ RmtreeUnlink
    \/ RemoveWorkingDir
    \/ UpdateModulesWithAdaroundedWeights
    \/ ExportEncodingsToJson
    \/ RemoveQuantizationWrappers

Spec == Init /\ [][Next]_vars

\* The variables of the first invocation
main == <<pc, err, inputs, model_params, quant_params, wrapped, param_quantizers,
          input_enabled, output_enabled, mode, idx, dir_entries, encodings_file, optimized,
          committed>>

PeerRaise(e) == peer' = [peer EXCEPT !.pc = "error", !.err = e]

\* _adaround_model of the second invocation, line 171
PeerCreateCachedDataset ==
    /\ peer.pc = "cache"
    /\ \E enough \in BOOLEAN :
          IF enough
          THEN /\ working_dir' = TRUE
               /\ cached_batches' = BatchFiles
               /\ peer' = [peer EXCEPT !.pc = "loop"]
          ELSE UNCHANGED <<working_dir, cached_batches>> /\ PeerRaise("ValueError")
    /\ UNCHANGED main

\* _adaround_model of the second invocation, lines 178-179
PeerSkipUnsupportedModule ==
    /\ peer.pc = "loop"
    /\ peer.idx <= Len(order)
    /\ ~IsSupported(order[peer.idx])
    /\ peer' = [peer EXCEPT !.idx = @ + 1]
    /\ UNCHANGED <<main, working_dir, cached_batches>>

\* _adaround_model of the second invocation, lines 182-185: the assertion of line 228
\* fails for the layer whose weight quantizer has no encoding
PeerReplaceTensorQuantizer ==
    /\ peer.pc = "loop"
    /\ peer.idx <= Len(order)
    /\ IsSupported(order[peer.idx])
    /\ IF order[peer.idx] = peer.disabled
       THEN PeerRaise("AssertionError")
       ELSE peer' = [peer EXCEPT !.pc = "optimize"]
    /\ UNCHANGED <<main, working_dir, cached_batches>>

\* _adaround_model of the second invocation, lines 188-192
PeerAdaroundModule ==
    /\ peer.pc = "optimize"
    /\ \E ok \in BOOLEAN, k \in 1..num_batches :
          IF ~(0..(k - 1) \subseteq cached_batches) THEN PeerRaise("FileNotFoundError")
          ELSE IF ok THEN peer' = [peer EXCEPT !.pc = "loop", !.idx = @ + 1]
          ELSE PeerRaise("OptimizerError")
    /\ UNCHANGED <<main, working_dir, cached_batches>>

\* _adaround_model of the second invocation, line 194
PeerWorkingDirExists ==
    /\ peer.pc = "loop"
    /\ peer.idx > Len(order)
    /\ peer' = [peer EXCEPT !.pc = IF working_dir THEN "lstat" ELSE "done"]
    /\ UNCHANGED <<main, working_dir, cached_batches>>

\* The second invocation takes the step r of shutil.rmtree; from the removal it goes
\* on to return from _adaround_model
PeerRmtreeStep(r) ==
    /\ peer' = [peer EXCEPT !.pc = (IF r.pc = "removed" THEN "done" ELSE r.pc),
                            !.err = (IF r.pc = "error" THEN r.err ELSE @),
                            !.dir_entries = r.dir_entries]
    /\ working_dir' = r.working_dir
    /\ cached_batches' = r.cached_batches
    /\ UNCHANGED main

\* _adaround_model of the second invocation, line 196: os.lstat
PeerRmtreeLstat ==
    /\ peer.pc = "lstat"
    /\ PeerRmtreeStep(rmtree("lstat", peer.dir_entries, 0, working_dir, cached_batches))

\* _adaround_model of the second invocation, line 196: os.open
PeerRmtreeOpen ==
    /\ peer.pc = "open"
    /\ PeerRmtreeStep(rmtree("open", peer.dir_entries, 0, working_dir, cached_batches))

\* _adaround_model of the second invocation, line 196: os.scandir
PeerRmtreeScandir ==
    /\ peer.pc = "scandir"
    /\ PeerRmtreeStep(rmtree("scandir", peer.dir_entries, 0, working_dir, cached_batches))

\* _adaround_model of the second invocation, line 196: os.unlink of one listed entry
PeerRmtreeUnlink ==
    /\ peer.pc = "unlink"
    /\ \E f \in peer.dir_entries :
          PeerRmtreeStep(rmtree("unlink", peer.dir_entries, f, working_dir, cached_batches))

\* _adaround_model of the second invocation, line 196: os.rmdir
PeerRemoveWorkingDir ==
    /\ peer.pc = "rmdir"
    /\ PeerRmtreeStep(rmtree("rmdir", peer.dir_entries, 0, working_dir, cached_batches))

NextConcurrent ==
    \/ Next
    \/ PeerCreateCachedDataset
    \/ PeerSkipUnsupportedModule
    \/ PeerReplaceTensorQuantizer
    \/ PeerAdaroundModule
    \/ PeerWorkingDirExists
    \/ PeerRmtreeLstat
    \/ PeerRmtreeOpen
    \/ PeerRmtreeScandir
    \/ PeerRmtreeUnlink
    \/ PeerRemoveWorkingDir

SpecConcurrent == InitConcurrent /\ [][NextConcurrent]_vars

----
\* Helpers of the properties

Range(seq) == {seq[i] : i \in DOMAIN seq}

Terminal == pc \in {"returned", "error"}

WeightKey(l) == <<l, "weight">>

\* Supported layers the forward pass invokes
UsedSupported == {l \in Range(order) : IsSupported(l)}

\* Failures of the collaborators (the data loader, the optimizer) and of the
\* configuration (a disabled weight quantizer), as opposed to failures of the driver
ExternalFailure == err \in {"ValueError", "OptimizerError", "AssertionError"}

\* C1. Cleanup guarantee: once apply_adaround has ended, by a normal return or by a
\* raised error, the calibration working directory does not exist.
C1_CleanupGuarantee == Terminal => ~working_dir

\* C2. Exclusion correctness: with an ignore_quant_ops_list holding one supported
\* layer L of the forward pass (and no failure of a collaborator), apply_adaround
\* completes and the encodings file holds one entry for each of the other N-1
\* supported layers of the forward pass and none for L.
C2_ExclusionCorrectness ==
    ( /\ Terminal
      /\ ~ExternalFailure
      /\ param_bw_override_list = <<>>
      /\ Len(ignore_quant_ops_list) = 1
      /\ ignore_quant_ops_list[1] \in UsedSupported )
    => /\ pc = "returned"
       /\ encodings_file.written
       /\ Cardinality(DOMAIN encodings_file.entries) = Cardinality(UsedSupported) - 1
       /\ WeightKey(ignore_quant_ops_list[1]) \notin DOMAIN encodings_file.entries

\* The hard-rounded reconstruction of a layer's float weight under its quantizer
HardWeight(l) ==
    adaround_weights([param_quantizers[l]["weight"] EXCEPT !.use_soft_rounding = FALSE],
                     InitParam(l, "weight"))

\* C3. Mode switch: once a layer's optimization has ended its rounding
\* quantizer is in hard mode in every later state, and the weight written back into
\* the layer is the hard-rounded one.
C3_HardFromThenOn ==
    /\ \A l \in Range(optimized) : ~param_quantizers[l]["weight"].use_soft_rounding
    /\ \A l \in committed : quant_params[l]["weight"] = HardWeight(l)

\* The bitwidth _override_param_bitwidth leaves in the weight quantizer of layer l: the
\* one of the last tuple of param_bw_override_list that names l, else the default
EffectiveBw(l) ==
    LET named == {i \in DOMAIN param_bw_override_list : param_bw_override_list[i][1] = l}
    IN  IF named = {} THEN default_param_bw
        ELSE param_bw_override_list[CHOOSE i \in named : \A j \in named : j <= i][2]

ExportedBw(l) == encodings_file.entries[WeightKey(l)][1].bitwidth

\* C4 as stated. Bit-width override correctness: for every (L, b) of
\* param_bw_override_list the exported encoding of L.weight has bitwidth b, and every
\* exported layer that the list does not name has bitwidth default_param_bw.
C4_EveryTupleExported ==
    pc = "returned" =>
       /\ \A i \in DOMAIN param_bw_override_list :
             WeightKey(param_bw_override_list[i][1]) \in DOMAIN encodings_file.entries
             => ExportedBw(param_bw_override_list[i][1]) = param_bw_override_list[i][2]
       /\ \A l \in Layers :
             ( /\ WeightKey(l) \in DOMAIN encodings_file.entries
               /\ \A i \in DOMAIN param_bw_override_list :
                     param_bw_override_list[i][1] # l )
             => ExportedBw(l) = default_param_bw

\* C4, amended. Bit-width override correctness: overrides are applied before any
\* encoding is computed; after a normal return every supported layer of the forward
\* pass is exported, with the bitwidth of the last tuple of param_bw_override_list that
\* names it, or with default_param_bw when no tuple names it.
C4_BitwidthOverride ==
    /\ pc = "override" =>
          \A l \in Layers : \A p \in DOMAIN param_quantizers[l] :
              ~param_quantizers[l][p].encoding.valid
    /\ pc = "returned" =>
          /\ DOMAIN encodings_file.entries = {WeightKey(l) : l \in UsedSupported}
          /\ \A l \in UsedSupported : ExportedBw(l) = EffectiveBw(l)

\* A run has returned with an overridden layer exported at a bitwidth that is not the
\* default, and with a layer the list does not name exported at the default
C4_Witness ==
    /\ pc = "returned"
    /\ \E l \in UsedSupported :
          EffectiveBw(l) # default_param_bw /\ ExportedBw(l) = EffectiveBw(l)
    /\ \E l \in UsedSupported :
          /\ \A i \in DOMAIN param_bw_override_list : param_bw_override_list[i][1] # l
          /\ ExportedBw(l) = default_param_bw

\* A module that is no module of the model, or that has no wrapper in the quantized model
Unresolvable(m) ==
    \/ ~get_layer_name_ok(m)
    \/ get_quant_module([l \in Layers |-> TRUE], get_layer_name(m)) = NoneModule

\* C5. Fail-fast configuration errors: when param_bw_override_list or
\* ignore_quant_ops_list names a module that cannot be resolved, the run ends with an
\* error before its optimization work begins: the run does not return a model, the
\* calibration cache is not created, no quantizer is replaced or optimized and no
\* encodings file is written.
C5_FailFast ==
    ( \/ \E i \in DOMAIN param_bw_override_list :
            ~get_layer_name_ok(param_bw_override_list[i][1])
      \/ \E i \in DOMAIN ignore_quant_ops_list : Unresolvable(ignore_quant_ops_list[i]) )
    => /\ pc # "returned"
       /\ ~working_dir
       /\ ~encodings_file.written
       /\ optimized = <<>>
       /\ \A l \in Layers : IsSupported(l) =>
             param_quantizers[l]["weight"].cls # "AdaroundTensorQuantizer"

\* The wrapper of the layer is missing or its weight quantizer has no encoding
MissingEncoding(l) ==
    \/ get_quant_module(wrapped, l) = NoneModule
    \/ ~param_quantizers[l]["weight"].encoding.valid

\* C6. Missing encoding is fatal and fails fast: when the turn of a supported layer
\* comes and its wrapper or the encoding of its weight quantizer is missing, the next
\* step ends the run with an error, before the optimizer is invoked for that layer; an
\* ended run takes no further step, so no later layer is optimized, no weight is
\* committed, no encodings file is written and no model is returned.
C6_MissingEncodingFatal ==
    [][ /\ ( /\ pc = "loop"
             /\ idx <= Len(order)
             /\ IsSupported(order[idx])
             /\ MissingEncoding(order[idx]) )
           => /\ pc' = "error"
              /\ UNCHANGED <<optimized, committed, quant_params, encodings_file, idx>>
        /\ pc = "error"
           => /\ UNCHANGED vars
              /\ committed = {}
              /\ ~encodings_file.written
              /\ quant_params = model_params ]_vars

\* A run has ended on a layer without encoding after an earlier layer was optimized
C6_Witness ==
    /\ pc = "error"
    /\ err = "AssertionError"
    /\ optimized # <<>>
    /\ MissingEncoding(order[idx])

\* C7. End-to-end result: with no overrides and no exclusions, the wrappers are still
\* in place as long as the encodings file is not written, and after a normal return
\* the model has no wrapper and the file holds exactly one entry, a list of one record
\* of bitwidth default_param_bw, per supported layer of the forward pass.
C7_EndToEnd ==
    (param_bw_override_list = <<>> /\ ignore_quant_ops_list = <<>>)
    => /\ ~encodings_file.written => \A l \in Layers : wrapped[l]
       /\ pc = "returned" =>
             /\ \A l \in Layers : ~wrapped[l]
             /\ encodings_file.written
             /\ DOMAIN encodings_file.entries = {WeightKey(l) : l \in UsedSupported}
             /\ \A k \in DOMAIN encodings_file.entries :
                   /\ Len(encodings_file.entries[k]) = 1
                   /\ encodings_file.entries[k][1].bitwidth = default_param_bw

\* A run without overrides and exclusions has returned a model with two exported layers
C7_Witness ==
    /\ pc = "returned"
    /\ param_bw_override_list = <<>>
    /\ ignore_quant_ops_list = <<>>
    /\ Cardinality(DOMAIN encodings_file.entries) >= 2
    /\ \A l \in Layers : ~wrapped[l]

\* Supported layers of the model that the forward pass does not invoke
UnusedSupported == {l \in Layers : IsSupported(l) /\ l \notin Range(order)}

\* C8. Unused layers are tolerated: a supported layer that the forward pass never
\* invokes never gets a rounding quantizer, its parameters are never changed, it has no
\* entry in the exported encodings, and it is never the layer a run fails on.
C8_UnusedLayersTolerated ==
    \A l \in UnusedSupported :
        /\ param_quantizers[l]["weight"].cls # "AdaroundTensorQuantizer"
        /\ quant_params[l] = model_params[l]
        /\ l \notin committed
        /\ WeightKey(l) \notin DOMAIN encodings_file.entries
        /\ (pc = "error" /\ err \in {"AssertionError", "AttributeError", "OptimizerError"})
           => order[idx] # l

\* A run has returned although the model has a supported layer outside the forward
\* pass, while another layer was committed and exported
C8_Witness ==
    /\ pc = "returned"
    /\ UnusedSupported # {}
    /\ committed # {}
    /\ encodings_file.written
    /\ \E l \in UnusedSupported : wrapped[l] = FALSE /\ quant_params[l] = model_params[l]

\* C9. The float reference model is never modified: in every state of a run the
\* parameters of the caller's model are the ones it had at the call.
C9_FloatModelUnmodified ==
    model_params = [l \in Layers |-> [p \in named_parameters(l) |-> InitParam(l, p)]]

\* A run has returned with a weight of the quantized model changed by the commit
C9_Witness ==
    /\ pc = "returned"
    /\ \E l \in committed : quant_params[l]["weight"] # model_params[l]["weight"]

\* C10. Activation quantizers stay disabled: from the computation of the param
\* encodings until the wrappers are removed, so while layers are optimized, committed
\* and exported, the input and the output quantizer of every wrapper are disabled.
C10_ActivationQuantizersDisabled ==
    pc \in ({"cache", "loop", "optimize", "commit", "export", "unwrap"} \cup RmtreeCalls)
    => \A l \in Layers : wrapped[l] => ~input_enabled[l] /\ ~output_enabled[l]

\* A layer is being optimized while the wrapper whose input quantizer the quantization
\* simulation had enabled is in place
C10_Witness ==
    /\ pc = "optimize"
    /\ wrapped[1]
    /\ ~input_enabled[1]
    /\ ~output_enabled[1]

\* C11 as stated. Per-layer commit ordering: the adarounded weight of a layer is
\* written back into the layer before the optimization of the next supported layer
\* begins.
C11_CommitBeforeNextLayer ==
    pc = "optimize" => \A l \in Range(optimized) : l \in committed

\* C11, amended. Commit ordering: for each supported layer in execution order the loop
\* replaces the quantizer and optimizes; no weight is written back while the loop runs
\* (the quantized model still holds the float weights), and the adarounded weights of
\* all optimized layers are written back in one commit phase after the loop has ended.
C11_CommitAfterLoop ==
    /\ pc \in ({"loop", "optimize"} \cup RmtreeCalls) =>
          committed = {} /\ quant_params = model_params
    /\ committed # {} =>
          /\ pc \in {"export", "unwrap", "returned"}
          /\ idx > Len(order)
          /\ committed = Range(optimized)

\* Two layers have been optimized and then committed together
C11_Witness ==
    /\ pc = "export"
    /\ Cardinality(committed) >= 2
    /\ committed = Range(optimized)

\* The supported layers among the first n modules of the execution order, in order
RECURSIVE SupportedPrefix(_)
SupportedPrefix(n) ==
    IF n = 0 THEN <<>>
    ELSE IF IsSupported(order[n]) THEN Append(SupportedPrefix(n - 1), order[n])
    ELSE SupportedPrefix(n - 1)

\* C12. Sequential accumulation in execution order: the layers optimized so far are
\* the supported layers of the execution order up to the loop position, in that
\* order; while the optimizer runs on a layer, that layer and every supported layer
\* before it in execution order carry a rounding quantizer, and every supported layer
\* after it still carries its original weight quantizer.
C12_SequentialAccumulation ==
    /\ pc \in ({"loop", "optimize"} \cup RmtreeCalls) =>
          optimized = SupportedPrefix(IF idx > Len(order) THEN Len(order) ELSE idx - 1)
    /\ pc = "optimize" =>
          /\ idx <= Len(order)
          /\ \A j \in DOMAIN order :
                IsSupported(order[j]) =>
                    param_quantizers[order[j]]["weight"].cls =
                        (IF j <= idx THEN "AdaroundTensorQuantizer"
                         ELSE "StaticGridPerTensorQuantizer")

\* The optimizer runs on a layer that is declared before an already optimized one
C12_Witness ==
    /\ pc = "optimize"
    /\ \E j \in 1..(idx - 1) :
          /\ IsSupported(order[j])
          /\ order[j] > order[idx]
          /\ param_quantizers[order[j]]["weight"].cls = "AdaroundTensorQuantizer"

\* C13. Calibration cache lifecycle: the working directory comes into existence only
\* by the creation of the cached dataset, which happens at one position of the run that
\* is passed once, before any layer is optimized; it exists whenever a layer is being
\* optimized; it is removed only when the loop has ended, and no layer is optimized
\* after that.
C13_CacheLifecycle ==
    [][ /\ (~working_dir /\ working_dir') =>
               pc = "cache" /\ pc' = "loop" /\ optimized = <<>> /\ idx = 1
        /\ pc' = "cache" => pc = "encodings"
        /\ (pc = "optimize" \/ pc' = "optimize") =>
               /\ working_dir /\ working_dir'
               /\ cached_batches = BatchFiles /\ cached_batches' = BatchFiles
        /\ ((working_dir /\ ~working_dir') \/ ~(cached_batches \subseteq cached_batches')) =>
               pc \in RmtreeCalls /\ idx > Len(order)
        /\ pc \in (RmtreeCalls \cup {"commit", "export", "unwrap", "returned"}) =>
               optimized' = optimized
        /\ pc \in {"commit", "export", "unwrap", "returned"} =>
               ~working_dir' /\ cached_batches' = {} ]_vars

\* Two layers were optimized from the cache, which was then removed
C13_Witness ==
    /\ pc = "commit"
    /\ ~working_dir
    /\ Len(optimized) >= 2

\* The encoding computed from the float weight of a layer at the bitwidth its weight
\* quantizer has after the overrides
FloatWeightEncoding(l) == compute_encoding(InitParam(l, "weight"), EffectiveBw(l))

\* C15. Encoding is computed once and preserved: an encoding changes only in the step
\* that computes the param encodings, which is taken once and before any layer is
\* optimized, and it is then the encoding of the float parameter; the rounding
\* quantizer that replaces a weight quantizer has the same bitwidth, quantization
\* scheme, symmetric flag, enabled flag and encoding; and the record exported for a
\* layer carries the encoding its weight quantizer held before the replacement.
C15_EncodingPreserved ==
    [][ /\ \A l \in Layers : \A p \in DOMAIN param_quantizers[l] :
              param_quantizers'[l][p].encoding # param_quantizers[l][p].encoding
              => /\ pc = "encodings"
                 /\ optimized = <<>>
                 /\ param_quantizers'[l][p].encoding =
                        compute_encoding(InitParam(l, p), param_quantizers[l][p].bitwidth)
        /\ pc' = "encodings" => pc = "skip"
        /\ (pc = "loop" /\ pc' = "optimize") =>
              LET old == param_quantizers[order[idx]]["weight"]
                  new == param_quantizers'[order[idx]]["weight"]
              IN  /\ old.cls = "StaticGridPerTensorQuantizer"
                  /\ new.cls = "AdaroundTensorQuantizer"
                  /\ new.bitwidth = old.bitwidth
                  /\ new.quant_scheme = old.quant_scheme
                  /\ new.use_symmetric_encodings = old.use_symmetric_encodings
                  /\ new.enabled = old.enabled
                  /\ new.encoding = old.encoding
                  /\ old.encoding = FloatWeightEncoding(order[idx])
        /\ (pc = "export" /\ pc' = "unwrap") =>
              \A k \in DOMAIN encodings_file'.entries :
                  LET rec == encodings_file'.entries[k][1]
                      enc == FloatWeightEncoding(k[1])
                  IN  /\ param_quantizers[k[1]][k[2]].encoding = enc
                      /\ rec.min = enc.min
                      /\ rec.max = enc.max
                      /\ rec.scale = enc.delta
                      /\ rec.offset = enc.offset
                      /\ rec.bitwidth = enc.bw ]_vars

\* A layer whose bitwidth was overridden is exported with the encoding computed from its
\* float weight at that bitwidth
C15_Witness ==
    /\ pc = "returned"
    /\ \E l \in committed :
          /\ EffectiveBw(l) # default_param_bw
          /\ encodings_file.entries[WeightKey(l)][1].scale = FloatWeightEncoding(l).delta
          /\ param_quantizers[l]["weight"].encoding = FloatWeightEncoding(l)

\* C16. Export record shape: the written encodings are one mapping whose keys are
\* <name>.weight for optimized layers and whose values are lists of one record with
\* exactly the fields min, max, scale, offset, bitwidth, is_symmetric and dtype, where
\* scale is the delta of the encoding, is_symmetric is "True" or "False" and dtype is
\* "int" or "float"; no other parameter has an entry.
C16_ExportRecordShape ==
    encodings_file.written =>
       \A k \in DOMAIN encodings_file.entries :
           /\ k[1] \in Range(optimized)
           /\ k[2] = "weight"
           /\ Len(encodings_file.entries[k]) = 1
           /\ DOMAIN encodings_file.entries[k][1] =
                  {"min", "max", "scale", "offset", "bitwidth", "is_symmetric", "dtype"}
           /\ encodings_file.entries[k][1].scale =
                  param_quantizers[k[1]]["weight"].encoding.delta
           /\ encodings_file.entries[k][1].is_symmetric \in {"True", "False"}
           /\ encodings_file.entries[k][1].dtype \in {"int", "float"}

\* A file with entries has been written for layers that also have a bias quantizer
C16_Witness ==
    /\ encodings_file.written
    /\ \E k \in DOMAIN encodings_file.entries :
          /\ "bias" \in DOMAIN param_quantizers[k[1]]
          /\ <<k[1], "bias">> \notin DOMAIN encodings_file.entries
          /\ encodings_file.entries[k][1].scale > 0

\* Layers whose weight quantizer is a rounding quantizer
Replaced ==
    {l \in Layers : IsSupported(l) /\
                    param_quantizers[l]["weight"].cls = "AdaroundTensorQuantizer"}

\* C17. Committed set equals exported set: once the encodings file of a successful run
\* is written, a layer's weight has been overwritten by the commit if and only if the
\* file has an entry for it, and both hold exactly for the layers whose weight
\* quantizer was replaced by a rounding quantizer in the per-layer loop.
C17_CommittedEqualsExported ==
    pc \in {"unwrap", "returned"} =>
       /\ DOMAIN encodings_file.entries = {WeightKey(l) : l \in committed}
       /\ committed = Replaced
       /\ committed = Range(optimized)
       /\ \A l \in Layers :
             (IsSupported(l) /\ quant_params[l]["weight"] # model_params[l]["weight"])
             => l \in committed

\* A successful run has committed and exported some supported layers and not others
C17_Witness ==
    /\ pc = "returned"
    /\ committed # {}
    /\ \E l \in Layers : IsSupported(l) /\ l \notin committed
    /\ DOMAIN encodings_file.entries = {WeightKey(l) : l \in committed}

\* C18. The commit touches only the weight: the commit step overwrites the parameter
\* 'weight' of every layer it commits with the reconstruction of the value it had
\* before the step, and leaves every other parameter of those layers and every
\* parameter of the other layers as they were.
C18_CommitTouchesOnlyWeight ==
    [][ pc = "commit" =>
           \A l \in Layers : \A p \in DOMAIN quant_params[l] :
               quant_params'[l][p] =
                   (IF l \in committed' /\ p = "weight"
                    THEN adaround_weights(param_quantizers'[l]["weight"], quant_params[l][p])
                    ELSE quant_params[l][p]) ]_vars

\* A commit has changed the weight of a layer and kept its bias
C18_Witness ==
    /\ pc = "export"
    /\ \E l \in committed :
          /\ quant_params[l]["weight"] # InitParam(l, "weight")
          /\ quant_params[l]["bias"] = InitParam(l, "bias")

\* C14. Concurrent invocations on the same path are not safe: both invocations use the
\* one process-wide WORKING_DIR, so when either of them reaches the end of its loop and
\* removes the directory, the directory is gone for the other one as well, whatever
\* the other one still has to do.
C14_SharedWorkingDir ==
    [][ ( \/ pc \in {"loop", "rmdir"} /\ pc' = "commit"
          \/ peer.pc \in {"loop", "rmdir"} /\ peer'.pc = "done" )
        => ~working_dir' ]_vars

\* The first invocation has removed the working directory while the second one, which
\* created its cached dataset there, still has a supported layer to optimize
C14_Witness ==
    /\ ~working_dir
    /\ pc \in {"commit", "export", "unwrap", "returned"}
    /\ peer.pc = "loop"
    /\ peer.idx <= Len(order)
    /\ IsSupported(order[peer.idx])

====
